---- MODULE Spec2Model ----
(***************************************************************************)
(* Model of the printer server's core:                                     *)
(*   - src/printer_boot_notify.py: the MAC registry (load/save with a      *)
(*     fallback path) and the reconciliation pass                          *)
(*     discover_and_add_printers;                                          *)
(*   - src/server1.py: the readiness gate ensure_printer_ready and the     *)
(*     retrying dispatcher send_to_cups.                                   *)
(* The reconciler is specified by Spec, the dispatcher by SpecDispatch.    *)
(*                                                                         *)
(* Encodings.                                                              *)
(*   IP address        : 1..NumIPs                                         *)
(*   URI               : <<ip, port>>  for "socket://<ip>:<port>"          *)
(*   MAC address       : 1..NumMACs, NoMac (0) for None                    *)
(*   queue name        : the sequence of its "_"-separated tokens; a token  *)
(*                       k >= 1 is the decimal numeral of k, Word(j) is a   *)
(*                       word that is no numeral, Word(0) being "printer":  *)
(*                       <<Word(0), 3>> is "printer_3", NoName (<<>>) is    *)
(*                       None or the empty string                           *)
(*   registry (a dict) : a function whose DOMAIN is the set of its MACs    *)
(*   CUPS queue set    : a function from configured names to their URI     *)
(***************************************************************************)
EXTENDS Integers, Sequences, FiniteSets, Bags, TLC

\* ------------------------------------------------------------ bounds
\* addresses on the subnet
NumIPs == 2
\* physical devices
NumMACs == 2
\* the highest N a pass may allocate as printer_N
MaxName == 3
\* runs of discover_and_add_printers
MaxPasses == 2
\* changes of the network or the queue set between passes
MaxEnvChanges == 2
\* failed lpadmin calls and failed registry writes
MaxFaults == 1
\* queues configured when the host boots
MaxBootQueues == 2
\* printers a call of wait_for_printers waits for, printers main notifies
MaxWaited == 2

\* --------------------------------------------------------- constants
RAW_PORT == 9100
\* Lines 882-883 of server1.py, in half seconds: the timeout is kept within
\* 5..120 s and the interval within 0.5..10 s.
TIMEOUT_MIN == 10
TIMEOUT_MAX == 240
INTERVAL_MIN == 1
INTERVAL_MAX == 20

IPs == 1..NumIPs
MACs == 1..NumMACs
NoMac == 0
NoName == <<>>
NoUri == <<0, 0>>
URIs == {<<ip, RAW_PORT>> : ip \in IPs}
Absent == NumMACs + 1

VARIABLES
    \* ---- environment of the reconciler
    cups,              \* configured queues: name -> device URI
    net,               \* per IP: MAC of the device there, NoMac, or Absent
    advertised,        \* IPs that lpinfo -v reports as socket:// devices
    fsMode,            \* "writable" | "readonly" | "nodir" (state of /etc/cups)
    files,             \* the two registry files
    \* ---- locals of discover_and_add_printers
    pc,                \* "idle" | "loop" | "done" | "aborted"
    mac_registry,
    existing_printers,
    discovered_uris,   \* the URIs the for loop has still to visit, as a bag
    next_idx,
    registry_changed,
    peer,              \* the locals of a second running pass while the other one steps
    \* ---- observation
    clock,             \* datetime.now(), one tick per pass
    envChanges,
    faults,            \* failed lpadmin calls, reads and writes so far
    seen,              \* how many addresses and how many MACs have been in use
    actions,           \* the reconciliation actions the current pass has taken
    hist,              \* facts about the run so far
    \* ---- environment of the dispatcher
    queue,             \* the target queue as CUPS holds it
    reachable,         \* whether a TCP connect to the device succeeds
    PRINT_MAX_RETRIES, \* the configured attempt count
    \* ---- locals of send_to_cups
    dpc,               \* "idle" | "attempt" | "sleep" | "returned" | "raised"
    attempt,
    max_attempts,
    last_error,
    result,            \* the job id returned or the error raised
    \* ---- observation
    lastCheck,         \* the latest call of ensure_printer_ready
    obs,               \* what the current call of send_to_cups has done
    \* ---- the other routines
    macCall,           \* the latest call of get_mac_address: inputs and result
    report,            \* the latest entry of the health / status report for the queue
    wait,              \* the locals of wait_for_printers and what its latest round did
    boot               \* the locals of the notification loop of main and what it did

recVars == <<cups, net, advertised, fsMode, files, pc, mac_registry,
             existing_printers, discovered_uris, next_idx, registry_changed,
             peer, clock, envChanges, faults, seen, actions, hist>>

dispVars == <<queue, reachable, PRINT_MAX_RETRIES, dpc, attempt, max_attempts,
              last_error, result, lastCheck, obs>>

auxVars == <<macCall, report, wait, boot>>

\* What a step of one pass leaves alone.
restVars == <<dispVars, peer, auxVars>>

\* What a step of the dispatcher leaves alone.
otherVars == <<recVars, auxVars>>

vars == <<recVars, dispVars, auxVars>>

\* ------------------------------------------------------------ helpers
EmptyDict == [x \in {} |-> 0]

DictPut(d, k, v) == [x \in (DOMAIN d) \cup {k} |-> IF x = k THEN v ELSE d[x]]

DictDel(d, k) == [x \in (DOMAIN d) \ {k} |-> d[x]]

MaxOf(S) == CHOOSE x \in S : \A y \in S : y <= x

\* ------------------------------------------------------- MAC registry
AbsentFile == [state |-> "absent", data |-> EmptyDict]

get_mac_registry_path == IF fsMode # "nodir" THEN "primary" ELSE "fallback"

\* load_mac_registry: the file's mapping, or {} when the file is missing or
\* open() or json.load() raises ("read_error", or a file that does not parse).
load_mac_registry(outcome) ==
    LET f == files[get_mac_registry_path]
    IN  IF f.state = "ok" /\ outcome = "ok" THEN f.data ELSE EmptyDict

LoadOutcomes ==
    IF files[get_mac_registry_path].state = "ok" THEN {"ok", "read_error"} ELSE {"ok"}

\* One attempt to write the registry to a file: "ok" writes it all,
\* "open_error" leaves the file as it was, "write_error" leaves a truncated
\* file: open(path, 'w') has emptied it and json.dump did not finish, because
\* it raised or because the process died.
WriteFile(fs, path, registry, outcome) ==
    CASE outcome = "ok" -> [fs EXCEPT ![path] = [state |-> "ok", data |-> registry]]
      [] outcome = "write_error" -> [fs EXCEPT ![path] = [state |-> "corrupt", data |-> EmptyDict]]
      [] OTHER -> fs

PrimaryOutcomes ==
    IF get_mac_registry_path = "primary" /\ fsMode = "readonly"
    THEN {"permission_error"}
    ELSE {"ok", "open_error", "write_error"}

FallbackOutcomes == {"ok", "open_error"}

\* save_mac_registry: the files after the call and the value it returns.
save_mac_registry(registry, o1, o2) ==
    LET path == get_mac_registry_path
    IN  IF o1 = "permission_error"
        THEN [files |-> WriteFile(files, "fallback", registry, o2), ok |-> (o2 = "ok"),
              attempted |-> <<path, "fallback">>]
        ELSE [files |-> WriteFile(files, path, registry, o1), ok |-> (o1 = "ok"),
              attempted |-> <<path>>]

\* ------------------------------------------------------ small lookups
extract_ip_from_uri(uri) == uri[1]

get_mac_address(ip) == IF net[ip] \in MACs THEN net[ip] ELSE NoMac

get_printer_name_by_mac(mac, registry) ==
    IF mac \in DOMAIN registry THEN registry[mac].name ELSE NoName

\* Tokens of a name: numerals are the positive integers, words the others.
Word(j) == 0 - j

PrefixWord == Word(0)

IsNumeral(tok) == tok >= 1

\* f"printer_{idx}" (lines 575, 603).
PrinterName(idx) == <<PrefixWord, idx>>

Names == {PrinterName(k) : k \in 1..MaxName}

\* n.startswith('printer_') (line 491).
StartsWithPrefix(n) == Len(n) >= 2 /\ n[1] = PrefixWord

existing_uris == {existing_printers[n] : n \in DOMAIN existing_printers}

lpinfo_uris == {<<ip, RAW_PORT>> : ip \in advertised}

scan_network_for_printers == {<<ip, RAW_PORT>> : ip \in {i \in IPs : net[i] # Absent}}

\* Lines 490-497: int(n.split('_')[1]) of every prefixed name; one that is
\* no numeral raises inside max() and the index stays 1.
NextIdx(existing_names) ==
    LET numbered == {n \in existing_names : StartsWithPrefix(n)}
    IN  IF numbered = {} THEN 1
        ELSE IF \A n \in numbered : IsNumeral(n[2])
        THEN MaxOf({n[2] : n \in numbered}) + 1
        ELSE 1

GatherAll(passive, active) == SetToBag(passive) (+) SetToBag(active)

\* Lines 470-486: both sources are added to one set, which keeps one copy of a
\* URI that both report.
Gather(passive, active) == SetToBag(passive \cup active)

VisitedNone(todo, uri) == todo

\* The for loop of line 504 has visited one copy of uri.
Visited(todo, uri) == todo (-) SetToBag({uri})

NewRecord(name, ip, uri) ==
    [name |-> name, last_ip |-> ip, last_uri |-> uri,
     first_seen |-> clock, last_seen |-> clock]

TouchSeenOnly(registry, mac, ip, uri) ==
    [registry EXCEPT ![mac] = [@ EXCEPT !.last_seen = clock]]

TouchAndRebind(registry, mac, ip, uri) ==
    LET others == {M \in DOMAIN cups : M # registry[mac].name /\ cups[M] = uri}
    IN  [registry EXCEPT ![mac] = [@ EXCEPT !.last_ip = ip, !.last_uri = uri,
                                            !.last_seen = clock,
                                            !.name = IF others = {} THEN @
                                                     ELSE CHOOSE M \in others : TRUE]]

TouchKeepSeen(registry, mac, ip, uri) ==
    [registry EXCEPT ![mac] = [@ EXCEPT !.last_ip = ip, !.last_uri = uri]]

TouchAsNew(registry, mac, ip, uri) ==
    [registry EXCEPT ![mac] = [@ EXCEPT !.last_ip = ip, !.last_uri = uri,
                                        !.first_seen = clock, !.last_seen = clock]]

Touch(registry, mac, ip, uri) ==
    [registry EXCEPT ![mac] = [@ EXCEPT !.last_ip = ip, !.last_uri = uri,
                                        !.last_seen = clock]]

\* lpadmin -p name -v uri [-E]: creates the queue or re-points it.
Lpadmin(queues, name, uri, ok) == IF ok THEN DictPut(queues, name, uri) ELSE queues

Act(kind, name, uri, mac, ok) ==
    [kind |-> kind, name |-> name, uri |-> uri, mac |-> mac, ok |-> ok]

\* ---------------------------------------------------- get_mac_address
\* What a lookup command prints for the address, as far as the parsing of
\* lines 112-160 can tell outputs apart: the MAC of device `mac` in upper or
\* lower case with ":" or "-" between the octets, text without a MAC
\* ("junk"), nothing ("none": no entry, or a non-zero return code), or the
\* command cannot be run ("error").
MacTexts == [kind : {"mac"}, mac : MACs, upper : BOOLEAN, sep : {":", "-"}]

NoText(kind) == [kind |-> kind, mac |-> NoMac, upper |-> FALSE, sep |-> ":"]

LookupOutputs == MacTexts \cup {NoText("junk"), NoText("none"), NoText("error")}

None == NoText("None")

\* mac.upper()
Upper(t) == [t EXCEPT !.upper = TRUE]

\* Lines 112-127: `ip neighbor show`; the word after lladdr, upper-cased,
\* must match ^([0-9A-F]{2}:){5}[0-9A-F]{2}$.
IpNeighbor(out) ==
    IF out \in MacTexts /\ Upper(out).sep = ":" THEN Upper(out) ELSE None

\* Lines 129-146: `arp -n`; the first ([0-9a-fA-F]{2}[:-]){5}[0-9a-fA-F]{2},
\* upper-cased, "-" replaced by ":".
Arp(out) ==
    IF out \in MacTexts THEN [Upper(out) EXCEPT !.sep = ":"] ELSE None

\* Lines 148-159: /proc/net/arp; the fourth field, upper-cased, must match
\* ^([0-9A-F]{2}:){5}[0-9A-F]{2}$.
ProcNetArp(out) ==
    IF out \in MacTexts /\ Upper(out).sep = ":" THEN Upper(out) ELSE None

\* get_mac_address(ip), lines 92-166.
\*   ip   : "" | "unknown" | "addr" (an address)
\*   ping : "ok" | "no_reply" | "raise" (subprocess.run of line 104 raises:
\*          ping cannot be started, or TimeoutExpired)
\*   o1, o2, o3 : what the three lookups give, in the order of the code
ResolveMac(ip, ping, o1, o2, o3) ==
    IF ip \in {"", "unknown"} THEN None
    ELSE IF ping = "raise" THEN None
    ELSE IF IpNeighbor(o1) # None THEN IpNeighbor(o1)
    ELSE IF Arp(o2) # None THEN Arp(o2)
    ELSE ProcNetArp(o3)

NoMacCall == [called |-> FALSE, ip |-> "", ping |-> "ok",
              out |-> <<NoText("none"), NoText("none"), NoText("none")>>,
              result |-> None]

\* No report asked for yet.
NoReport == [called |-> FALSE, endpoint |-> "none", listed |-> FALSE, ready |-> FALSE,
             reach |-> FALSE,
             queue |-> [exists |-> FALSE, hasIp |-> FALSE, state |-> 3, accepting |-> TRUE]]

\* wait_for_printers has not been called.
NoWait == [pc |-> "idle", timeout |-> 0, interval |-> 0, printers_to_check |-> {},
           ready_printers |-> {}, not_ready_printers |-> {}, now |-> 0, attempts |-> 0,
           success |-> FALSE, listed |-> TRUE, before |-> {}, checked |-> {}, at |-> 0,
           slept |-> FALSE]

\* main has not reached its notification loop.
NoBoot == [pc |-> "idle", printers |-> {}, printer |-> 0, max_retries |-> 0,
           attempt |-> 0, success_count |-> 0, fail_count |-> 0,
           attempts |-> [p \in 1..MaxWaited |-> 0],
           sleeps |-> [p \in 1..MaxWaited |-> 0],
           printed |-> {}, lateAttempts |-> 0,
           counted |-> [p \in 1..MaxWaited |-> 0]]

AuxAtRest ==
    /\ macCall = NoMacCall
    /\ report = NoReport
    /\ wait = NoWait
    /\ boot = NoBoot

\* One call of get_mac_address.
GetMacAddress ==
    /\ ~macCall.called
    /\ \E ip \in {"", "unknown", "addr"}, ping \in {"ok", "no_reply", "raise"},
          o1 \in LookupOutputs, o2 \in LookupOutputs, o3 \in LookupOutputs :
         macCall' = [called |-> TRUE, ip |-> ip, ping |-> ping,
                     out |-> <<o1, o2, o3>>,
                     result |-> ResolveMac(ip, ping, o1, o2, o3)]
    /\ UNCHANGED <<recVars, dispVars, report, wait, boot>>

\* --------------------------------------------------------------- Init
\* No call of save_mac_registry in this pass yet.
NoSave == [called |-> FALSE, ok |-> FALSE, attempted |-> <<>>]

InitHist == [saved |-> NoSave, addNew |-> [m \in MACs |-> 0], allResolved |-> TRUE,
             savesOk |-> TRUE, lpadminOk |-> TRUE, known |-> {}, stable |-> FALSE,
             repeat |-> FALSE, filesAtStart |-> [primary |-> AbsentFile, fallback |-> AbsentFile],
             cupsAtStart |-> EmptyDict, visits |-> [u \in URIs |-> 0],
             lookup |-> "ok"]

\* No pass has run yet.
\* The locals of one running discover_and_add_printers.
Locals(p, reg, listing, todo, idx, changed, acts) ==
    [pc |-> p, mac_registry |-> reg, existing_printers |-> listing,
     discovered_uris |-> todo, next_idx |-> idx, registry_changed |-> changed,
     actions |-> acts]

\* The locals of a pass that has not started.
LocalsAtRest == Locals("idle", EmptyDict, EmptyDict, EmptyBag, 1, FALSE, {})

PassAtRest ==
    /\ pc = "idle"
    /\ peer = LocalsAtRest
    /\ mac_registry = EmptyDict
    /\ existing_printers = EmptyDict
    /\ discovered_uris = EmptyBag
    /\ next_idx = 1
    /\ registry_changed = FALSE
    /\ clock = 0
    /\ envChanges = 0
    /\ faults = 0
    /\ seen = [ips |-> 0, macs |-> 0]
    /\ actions = {}
    /\ hist = InitHist
    /\ AuxAtRest

InitReconcile ==
    /\ cups = EmptyDict
    /\ net = [i \in IPs |-> Absent]
    /\ advertised = {}
    /\ fsMode \in {"writable", "readonly", "nodir"}
    /\ files = [primary |-> AbsentFile, fallback |-> AbsentFile]
    /\ PassAtRest

\* A boot of a host that has been in use: up to MaxBootQueues queues, made
\* by earlier passes (printer_<n>, a raw socket queue) or by an operator (any
\* name, here no socket queue), at most one record in the registry file, and
\* any devices on the network.
OtherUri == <<0, 0 - 1>>

\* "printer_old", "office", "printer_2_old".
ForeignNames == {<<PrefixWord, Word(1)>>, <<Word(2)>>, <<PrefixWord, 2, Word(1)>>}

BootQueueSets ==
    UNION {{q \in [S -> URIs \cup {OtherUri}] :
               \A n \in S : (q[n] = OtherUri) <=> (n \in ForeignNames)} :
           S \in {T \in SUBSET (Names \cup ForeignNames) : Cardinality(T) <= MaxBootQueues}}

BootRegistries ==
    {EmptyDict} \cup
    UNION {{[x \in {mac} |-> [name |-> n, last_ip |-> extract_ip_from_uri(u), last_uri |-> u,
                               first_seen |-> 0, last_seen |-> 0]] :
               n \in Names, u \in URIs} : mac \in MACs}

InitBoot ==
    /\ cups \in BootQueueSets
    /\ net \in [IPs -> MACs \cup {NoMac, Absent}]
    /\ advertised = {}
    /\ fsMode = "writable"
    /\ \E reg \in BootRegistries :
         files = [primary |-> IF reg = EmptyDict THEN AbsentFile
                              ELSE [state |-> "ok", data |-> reg],
                  fallback |-> AbsentFile]
    /\ PassAtRest

\* ------------------------------------------- discover_and_add_printers
\* Lines 458-502: load the registry, read the configured queues, gather the
\* discovered URIs of both sources into one set, compute the next index.
StartPass ==
    /\ pc \in {"idle", "done", "aborted"}
    /\ clock < MaxPasses
    /\ clock' = clock + 1
    /\ \E outcome \in LoadOutcomes :
         /\ outcome = "ok" \/ faults < MaxFaults
         /\ faults' = IF outcome = "ok" THEN faults ELSE faults + 1
         /\ mac_registry' = load_mac_registry(outcome)
    /\ existing_printers' = cups
    /\ discovered_uris' = Gather(lpinfo_uris, scan_network_for_printers)
    /\ next_idx' = NextIdx(DOMAIN cups)
    /\ registry_changed' = FALSE
    /\ actions' = {}
    /\ hist' = [hist EXCEPT !.repeat = hist.stable, !.filesAtStart = files,
                            !.saved = NoSave,
                            !.visits = InitHist.visits,
                            !.cupsAtStart = cups,
                            !.lookup = "ok"]
    /\ pc' = "loop"
    /\ UNCHANGED <<cups, net, advertised, fsMode, files, envChanges, seen>>
    /\ UNCHANGED restVars

\* The state after the loop body for `uri`, lpadmin answering `ok`, and the
\* back-fill loop stopping at queue `pick` (lines 505-612).
OldUriNow(existing_name) ==
    IF existing_name \in DOMAIN cups THEN cups[existing_name] ELSE NoUri

\* existing_printers.get(existing_name, {}).get('uri'): the URI the queue had
\* in the listing taken at the start of the pass, None for a queue not in it.
OldUri(existing_name) ==
    IF existing_name \in DOMAIN existing_printers
    THEN existing_printers[existing_name] ELSE NoUri

AfterLpadminAlways(ok, updated, registry) == updated

\* Lines 530, 545, 580: the registry is written only under
\* `if update_printer_uri(...)` / `if result.returncode == 0`.
AfterLpadmin(ok, updated, registry) == IF ok THEN updated ELSE registry

Body(uri, ok, pick) ==
    LET ip == extract_ip_from_uri(uri)
        mac == get_mac_address(ip)
        existing_name == get_printer_name_by_mac(mac, mac_registry)
        old_uri == OldUri(existing_name)
        name == PrinterName(next_idx)
        same(a) == [cups |-> cups, reg |-> mac_registry, idx |-> next_idx,
                    changed |-> registry_changed, act |-> a]
    IN  IF mac # NoMac
        THEN IF existing_name # NoName
             THEN IF old_uri = uri
                  THEN same(Act("Skip", existing_name, uri, mac, TRUE))
                  ELSE IF existing_name \in DOMAIN existing_printers
                  THEN [cups |-> Lpadmin(cups, existing_name, uri, ok),
                        reg |-> AfterLpadmin(ok, Touch(mac_registry, mac, ip, uri),
                                             mac_registry),
                        idx |-> next_idx,
                        changed |-> (registry_changed \/ ok),
                        act |-> Act("UpdateUri", existing_name, uri, mac, ok)]
                  ELSE [cups |-> Lpadmin(cups, existing_name, uri, ok),
                        reg |-> AfterLpadmin(ok, Touch(mac_registry, mac, ip, uri),
                                             mac_registry),
                        idx |-> next_idx,
                        changed |-> (registry_changed \/ ok),
                        act |-> Act("Reattach", existing_name, uri, mac, ok)]
             ELSE IF uri \in existing_uris
                  THEN [cups |-> cups,
                        reg |-> DictPut(mac_registry, mac, NewRecord(pick, ip, uri)),
                        idx |-> next_idx,
                        changed |-> TRUE,
                        act |-> Act("RegisterMacOnly", pick, uri, mac, TRUE)]
                  ELSE [cups |-> Lpadmin(cups, name, uri, ok),
                        reg |-> AfterLpadmin(ok,
                                    DictPut(mac_registry, mac, NewRecord(name, ip, uri)),
                                    mac_registry),
                        idx |-> next_idx + 1,
                        changed |-> (registry_changed \/ ok),
                        act |-> Act("AddNew", name, uri, mac, ok)]
        ELSE IF uri \in existing_uris
             THEN same(Act("Skip", NoName, uri, NoMac, TRUE))
             ELSE [cups |-> Lpadmin(cups, name, uri, ok),
                   reg |-> mac_registry,
                   idx |-> next_idx + 1,
                   changed |-> registry_changed,
                   act |-> Act("AddNew", name, uri, NoMac, ok)]

\* The queues the back-fill loop of lines 560-572 can stop at.
Picks(uri) ==
    LET hits == {n \in DOMAIN existing_printers : existing_printers[n] = uri}
    IN  IF hits = {} THEN {NoName} ELSE hits

ProcessEndpoint ==
    /\ pc = "loop"
    /\ \E uri \in BagToSet(discovered_uris), ok \in BOOLEAN :
         \E pick \in Picks(uri) :
           LET r == Body(uri, ok, pick)
           IN  /\ r.idx <= MaxName + 1
               /\ ok \/ faults < MaxFaults
               /\ faults' = IF ok THEN faults ELSE faults + 1
               /\ cups' = r.cups
               /\ mac_registry' = r.reg
               /\ next_idx' = r.idx
               /\ registry_changed' = r.changed
               /\ actions' = actions \cup {r.act}
               /\ discovered_uris' = Visited(discovered_uris, uri)
               /\ hist' = [hist EXCEPT
                     !.visits = [@ EXCEPT ![uri] = @ + 1],
                     !.addNew = IF r.act.kind = "AddNew" /\ r.act.ok /\ r.act.mac # NoMac
                                THEN [@ EXCEPT ![r.act.mac] = @ + 1] ELSE @,
                     !.allResolved = @ /\ r.act.mac # NoMac,
                     !.lpadminOk = @ /\ r.act.ok]
    /\ UNCHANGED <<net, advertised, fsMode, files, pc, existing_printers,
                   clock, envChanges, seen>>
    /\ UNCHANGED restVars

\* The branches of the loop that call subprocess.run outside any try of their
\* own (lines 544, 579, 606).
CallsLpadminBare(uri, pick) == Body(uri, TRUE, pick).act.kind \in {"AddNew", "Reattach"}

\* subprocess.run raises (OSError: lpadmin cannot be started): the exception
\* leaves the loop, the handler of lines 633-636 prints it and the function
\* returns without reaching the save of lines 614-616.
EndpointRaises ==
    /\ pc = "loop"
    /\ faults < MaxFaults
    /\ \E uri \in BagToSet(discovered_uris) :
         \E pick \in Picks(uri) : CallsLpadminBare(uri, pick)
    /\ faults' = faults + 1
    /\ pc' = "aborted"
    /\ discovered_uris' = EmptyBag
    /\ hist' = [hist EXCEPT !.lpadminOk = FALSE, !.stable = TRUE,
                            !.savesOk = @ /\ ~registry_changed]
    /\ UNCHANGED <<cups, net, advertised, fsMode, files, mac_registry, existing_printers,
                   next_idx, registry_changed, clock, envChanges, seen, actions>>
    /\ UNCHANGED restVars

\* Lines 614-616: save the registry if it changed.
EndPass ==
    /\ pc = "loop"
    /\ discovered_uris = EmptyBag
    /\ pc' = "done"
    /\ IF registry_changed
       THEN \E o1 \in PrimaryOutcomes, o2 \in FallbackOutcomes :
              LET s == save_mac_registry(mac_registry, o1, o2)
                  bad == IF o1 = "ok" \/ (o1 = "permission_error" /\ o2 = "ok")
                         THEN 0 ELSE 1
              IN  /\ faults + bad <= MaxFaults
                  /\ faults' = faults + bad
                  /\ files' = s.files
                  /\ hist' = [hist EXCEPT !.savesOk = @ /\ s.ok, !.stable = TRUE,
                                          !.saved = [called |-> TRUE, ok |-> s.ok,
                                                     attempted |-> s.attempted],
                                          !.known = IF s.ok THEN DOMAIN mac_registry
                                                    ELSE @]
       ELSE /\ files' = files
            /\ faults' = faults
            /\ hist' = [hist EXCEPT !.stable = TRUE]
    /\ UNCHANGED <<cups, net, advertised, fsMode, mac_registry, existing_printers,
                   discovered_uris, next_idx, registry_changed, clock, envChanges,
                   seen, actions>>
    /\ UNCHANGED restVars

\* A pass starts while one of the two discovery mechanisms is out of order.
\*   "lpinfo_raised": subprocess.run(['lpinfo', '-v']) of line 474 raises (the
\*       command cannot be started); the call is in no try of its own, so the
\*       handler of lines 633-636 ends the pass before the scan of line 484.
\*   "scan_failed": scan_network_for_printers finds no subnet, times out or
\*       raises; its own handlers (lines 439-442) make it return the empty
\*       list it has collected, and the pass goes on with the lpinfo URIs.
LookupFailures == {"lpinfo_raised", "scan_failed"}

StartPassDegraded ==
    /\ pc \in {"idle", "done", "aborted"}
    /\ clock < MaxPasses
    /\ faults < MaxFaults
    /\ clock' = clock + 1
    /\ faults' = faults + 1
    /\ mac_registry' = load_mac_registry("ok")
    /\ existing_printers' = cups
    /\ registry_changed' = FALSE
    /\ actions' = {}
    /\ \E failure \in LookupFailures :
         /\ hist' = [hist EXCEPT !.repeat = FALSE, !.stable = FALSE,
                                 !.filesAtStart = files,
                                 !.saved = NoSave,
                                 !.visits = InitHist.visits,
                                 !.cupsAtStart = cups,
                                 !.lookup = failure]
         /\ IF failure = "lpinfo_raised"
            THEN /\ pc' = "aborted"
                 /\ discovered_uris' = EmptyBag
                 /\ next_idx' = 1
            ELSE /\ pc' = "loop"
                 /\ discovered_uris' = Gather(lpinfo_uris, {})
                 /\ next_idx' = NextIdx(DOMAIN cups)
    /\ UNCHANGED <<cups, net, advertised, fsMode, files, envChanges, seen>>
    /\ UNCHANGED restVars

\* ------------------------------------------------------- environment
\* Something changes between two passes; the finished pass's locals are gone.
EnvStep ==
    /\ pc \in {"idle", "done", "aborted"}
    /\ envChanges < MaxEnvChanges
    /\ envChanges' = envChanges + 1
    /\ pc' = "idle"
    /\ mac_registry' = EmptyDict
    /\ existing_printers' = EmptyDict
    /\ next_idx' = 1
    /\ registry_changed' = FALSE
    /\ actions' = {}
    /\ hist' = [hist EXCEPT !.stable = FALSE, !.repeat = FALSE,
                            !.saved = NoSave,
                            !.visits = InitHist.visits,
                            !.filesAtStart = InitHist.filesAtStart,
                            !.cupsAtStart = EmptyDict,
                            !.lookup = "ok"]
    /\ UNCHANGED <<fsMode, files, discovered_uris, clock, faults>>
    /\ UNCHANGED restVars

\* Addresses and MACs are numbered in order of first use: the next one to
\* come into use is the lowest unused number.
Fresh(x, used) == x <= used + 1

Use(x, used) == IF x > used THEN x ELSE used

\* A device appears at, changes at or leaves an address.
DeviceChange ==
    /\ EnvStep
    /\ \E ip \in IPs, v \in MACs \cup {NoMac, Absent} :
         /\ v # net[ip]
         /\ Fresh(ip, seen.ips)
         /\ v \in MACs => Fresh(v, seen.macs)
         /\ net' = [net EXCEPT ![ip] = v]
         /\ seen' = [ips |-> Use(ip, seen.ips),
                     macs |-> IF v \in MACs THEN Use(v, seen.macs) ELSE seen.macs]
    /\ UNCHANGED <<cups, advertised>>

\* DHCP hands a device another address.
DeviceMoves ==
    /\ EnvStep
    /\ \E from \in IPs, to \in IPs :
         /\ from # to
         /\ net[from] # Absent
         /\ net[to] = Absent
         /\ Fresh(to, seen.ips)
         /\ net' = [net EXCEPT ![from] = Absent, ![to] = net[from]]
         /\ seen' = [seen EXCEPT !.ips = Use(to, @)]
    /\ UNCHANGED <<cups, advertised>>

\* lpinfo starts or stops reporting an address.
AdvertChange ==
    /\ EnvStep
    /\ \E ip \in IPs :
         /\ Fresh(ip, seen.ips)
         /\ advertised' = IF ip \in advertised THEN advertised \ {ip}
                          ELSE advertised \cup {ip}
         /\ seen' = [seen EXCEPT !.ips = Use(ip, @)]
    /\ UNCHANGED <<cups, net>>

\* An operator removes a queue by hand (lpadmin -x).
QueueDeleted ==
    /\ EnvStep
    /\ \E n \in DOMAIN cups : cups' = DictDel(cups, n)
    /\ UNCHANGED <<net, advertised, seen>>

Next ==
    \/ StartPass
    \/ ProcessEndpoint
    \/ EndpointRaises
    \/ EndPass
    \/ DeviceChange
    \/ DeviceMoves
    \/ AdvertChange
    \/ QueueDeleted

\* =====================================================================
\*                      server1.py: readiness and dispatch
\* =====================================================================
STATE_IDLE == 3
STATE_PROCESSING == 4
STATE_STOPPED == 5

\* the highest configured PRINT_MAX_RETRIES
MaxRetriesCfg == 2

QueueStates ==
    [exists : BOOLEAN, hasIp : BOOLEAN,
     state : {STATE_IDLE, STATE_PROCESSING, STATE_STOPPED}, accepting : BOOLEAN]

\* get_printer_info: None (found = FALSE) when the queue is not configured or
\* when talking to CUPS raises; otherwise what CUPS reports now.
get_printer_info(q, cupsFails) ==
    IF cupsFails \/ ~q.exists
    THEN [found |-> FALSE, ip |-> FALSE, state |-> STATE_IDLE, is_accepting |-> TRUE]
    ELSE [found |-> TRUE, ip |-> q.hasIp, state |-> q.state, is_accepting |-> q.accepting]

check_printer_reachable(reach) == reach

\* The outcome of one call to the queue manager: it takes effect, it returns
\* without taking effect, or it raises.
CallOutcomes == {"ok", "noeffect", "raise"}

\* The outcomes that matter for a queue in state q: a call that is not made
\* has one.
EnableOutcomes(q) ==
    IF q.exists /\ q.state = STATE_STOPPED THEN CallOutcomes ELSE {"ok"}

AcceptOutcomes(q) ==
    IF q.exists /\ ~q.accepting THEN CallOutcomes ELSE {"ok"}

ListingOutcomes(ready) == IF ready THEN {"ok", "raise", "missing"} ELSE {"ok"}

SubmitOutcomes(submit) ==
    IF submit THEN {"ok", "ipp_error", "error_after_accept"} ELSE {"ok"}

enablePrinter(q, o) == IF o = "ok" THEN [q EXCEPT !.state = STATE_IDLE] ELSE q

acceptJobs(q, o) == IF o = "ok" THEN [q EXCEPT !.accepting = TRUE] ELSE q

UnreachableUnlessStopped(info, reach) ==
    info.ip /\ ~check_printer_reachable(reach) /\ info.state # STATE_STOPPED

\* Lines 284-286: the reachability step fails.
Unreachable(info, reach) == info.ip /\ ~check_printer_reachable(reach)

Verdict(ready, reason, calls, q) ==
    [ready |-> ready, reason |-> reason, calls |-> calls, after |-> q]

AcceptingStepAlways(info, auto_enable, q, calls, ac2) ==
    IF ~info.is_accepting
    THEN IF ac2 = "raise"
         THEN Verdict(FALSE, "not_accepting_enable_failed", Append(calls, "acceptJobs"), q)
         ELSE Verdict(TRUE, "ready", Append(calls, "acceptJobs"), acceptJobs(q, ac2))
    ELSE Verdict(TRUE, "ready", calls, q)

\* Lines 303-316, entered with the queue as `q` and the calls made so far.
AcceptingStep(info, auto_enable, q, calls, ac2) ==
    IF ~info.is_accepting
    THEN IF auto_enable
         THEN IF ac2 = "raise"
              THEN Verdict(FALSE, "not_accepting_enable_failed",
                           Append(calls, "acceptJobs"), q)
              ELSE Verdict(TRUE, "ready", Append(calls, "acceptJobs"),
                           acceptJobs(q, ac2))
         ELSE Verdict(FALSE, "not_accepting", calls, q)
    ELSE Verdict(TRUE, "ready", calls, q)

\* Lines 288-316.
StoppedStep(info, auto_enable, q, en, ac1, ac2) ==
    IF info.state = STATE_STOPPED
    THEN IF auto_enable
         THEN IF en = "raise"
              THEN Verdict(FALSE, "stopped_enable_failed", <<"enablePrinter">>, q)
              ELSE IF ac1 = "raise"
              THEN Verdict(FALSE, "stopped_enable_failed",
                           <<"enablePrinter", "acceptJobs">>, enablePrinter(q, en))
              ELSE AcceptingStep(info, auto_enable,
                                 acceptJobs(enablePrinter(q, en), ac1),
                                 <<"enablePrinter", "acceptJobs">>, ac2)
         ELSE Verdict(FALSE, "stopped", <<>>, q)
    ELSE AcceptingStep(info, auto_enable, q, <<>>, ac2)

\* ensure_printer_ready on queue q: its verdict, the calls it made to the
\* queue manager and the queue afterwards.
ensure_printer_ready(q, reach, auto_enable, cupsFails, en, ac1, ac2) ==
    LET info == get_printer_info(q, cupsFails)
    IN  IF ~info.found
        THEN Verdict(FALSE, "not_found", <<>>, q)
        ELSE IF Unreachable(info, reach)
        THEN Verdict(FALSE, "unreachable", <<>>, q)
        ELSE StoppedStep(info, auto_enable, q, en, ac1, ac2)

CheckRecord(q, reach, auto_enable, cupsFails, v) ==
    [called |-> TRUE, before |-> q, reach |-> reach, auto |-> auto_enable,
     cupsFails |-> cupsFails, ready |-> v.ready, reason |-> v.reason,
     calls |-> v.calls, after |-> v.after]

NoCheck ==
    [called |-> FALSE,
     before |-> [exists |-> FALSE, hasIp |-> FALSE, state |-> STATE_IDLE, accepting |-> TRUE],
     reach |-> FALSE, auto |-> FALSE, cupsFails |-> FALSE, ready |-> FALSE,
     reason |-> "none", calls |-> <<>>,
     after |-> [exists |-> FALSE, hasIp |-> FALSE, state |-> STATE_IDLE, accepting |-> TRUE]]

NoError == [attempt |-> 0, kind |-> "none", reason |-> "none"]

Failure(n, kind, reason) == [attempt |-> n, kind |-> kind, reason |-> reason]

\* The queue as it is when printData is called.
NoSubmit == [made |-> FALSE, reach |-> TRUE, state |-> STATE_IDLE, accepting |-> TRUE]

NoObs == [checks |-> 0, submits |-> 0, jobs |-> 0, sleeps |-> 0,
          failures |-> <<>>, submit |-> NoSubmit, allNotReady |-> TRUE, lastJob |-> 0]

\* Line 361.
MaxAttempts(retry) == IF retry THEN PRINT_MAX_RETRIES ELSE 1

AttemptsRemainOffByOne(n, max) == n + 1 < max

AttemptsRemainInclusive(n, max) == n <= max

\* Lines 402, 410, 417: another attempt follows.
AttemptsRemain(n, max) == n < max

RaisedPrevious(last, failures) ==
    IF failures = <<>> THEN last ELSE failures[Len(failures)]

RaisedFirst(last, failures) == IF failures = <<>> THEN last ELSE failures[1]

\* Lines 407, 414, 421: what the caller gets when the attempts are used up,
\* given the failure of this attempt and the failures recorded before it.
RaisedError(last, failures) == last

\* Line 398.
ReturnedJob(job_id) == job_id

InitDispatch ==
    /\ queue \in QueueStates
    /\ reachable \in BOOLEAN
    /\ PRINT_MAX_RETRIES \in (0 - 1)..MaxRetriesCfg
    /\ dpc = "idle"
    /\ attempt = 0
    /\ max_attempts = 0
    /\ last_error = NoError
    /\ result = [job |-> 0, error |-> NoError]
    /\ lastCheck = NoCheck
    /\ obs = NoObs

\* send_to_cups is called (lines 360-363). With no attempt to make the loop
\* is skipped and line 423 raises None, a TypeError.
Call ==
    /\ dpc \in {"idle", "returned", "raised"}
    /\ \E retry \in BOOLEAN :
         /\ max_attempts' = MaxAttempts(retry)
         /\ IF MaxAttempts(retry) >= 1
            THEN /\ dpc' = "attempt"
                 /\ attempt' = 1
                 /\ result' = [job |-> 0, error |-> NoError]
            ELSE /\ dpc' = "raised"
                 /\ attempt' = 0
                 /\ result' = [job |-> 0, error |-> Failure(0, "type_error", "none")]
    /\ last_error' = NoError
    /\ obs' = NoObs
    /\ lastCheck' = NoCheck
    /\ UNCHANGED <<queue, reachable, PRINT_MAX_RETRIES>>
    /\ UNCHANGED otherVars

\* What one pass through the loop body does (lines 364-398), before the
\* except clauses: the verdict of the gate, then the submission.
\*   listing: conn.getPrinters() "ok", "raise", or "missing" (queue not listed)
\*   sub    : printData "ok", "ipp_error" (nothing accepted), or
\*            "error_after_accept" (the job was accepted, the call raised)
Outcome(v, listing, sub) ==
    IF ~v.ready THEN Failure(attempt, "not_ready", v.reason)
    ELSE IF listing = "raise" THEN Failure(attempt, "cups_error", "none")
    ELSE IF listing = "missing" THEN Failure(attempt, "queue_not_found", "none")
    ELSE IF sub = "ok" THEN NoError
    ELSE Failure(attempt, "ipp_error", "none")

Submits(v, listing) == v.ready /\ listing = "ok"

Attempt ==
    /\ dpc = "attempt"
    /\ \E cupsFails \in BOOLEAN, en \in EnableOutcomes(queue),
          ac1 \in EnableOutcomes(queue), ac2 \in AcceptOutcomes(queue) :
       \E listing \in ListingOutcomes(
              ensure_printer_ready(queue, reachable, TRUE, cupsFails, en, ac1, ac2).ready) :
       \E sub \in SubmitOutcomes(
              Submits(ensure_printer_ready(queue, reachable, TRUE, cupsFails, en, ac1, ac2),
                      listing)) :
         LET v == ensure_printer_ready(queue, reachable, TRUE, cupsFails, en, ac1, ac2)
             f == Outcome(v, listing, sub)
             submit == Submits(v, listing)
             accepted == submit /\ sub \in {"ok", "error_after_accept"}
             jobs == obs.jobs + (IF accepted THEN 1 ELSE 0)
         IN  /\ queue' = v.after
             /\ lastCheck' = CheckRecord(queue, reachable, TRUE, cupsFails, v)
             /\ obs' = [obs EXCEPT
                   !.checks = @ + 1,
                   !.submits = @ + (IF submit THEN 1 ELSE 0),
                   !.jobs = jobs,
                   !.lastJob = IF accepted THEN jobs ELSE @,
                   !.submit = IF submit
                              THEN [made |-> TRUE,
                                    reach |-> (v.after.hasIp => reachable),
                                    state |-> v.after.state,
                                    accepting |-> v.after.accepting]
                              ELSE NoSubmit,
                   !.allNotReady = @ /\ ~v.ready,
                   !.failures = IF f = NoError THEN @ ELSE Append(@, f)]
             /\ IF f = NoError
                THEN /\ dpc' = "returned"
                     /\ result' = [job |-> ReturnedJob(jobs), error |-> NoError]
                     /\ last_error' = last_error
                ELSE /\ last_error' = f
                     /\ IF AttemptsRemain(attempt, max_attempts)
                        THEN /\ dpc' = "sleep"
                             /\ result' = result
                        ELSE /\ dpc' = "raised"
                             /\ result' = [job |-> 0, error |-> RaisedError(f, obs.failures)]
    /\ UNCHANGED <<reachable, PRINT_MAX_RETRIES, attempt, max_attempts>>
    /\ UNCHANGED otherVars

\* time.sleep(PRINT_RETRY_DELAY), then the next iteration.
Sleep ==
    /\ dpc = "sleep"
    /\ dpc' = "attempt"
    /\ attempt' = attempt + 1
    /\ obs' = [obs EXCEPT !.sleeps = @ + 1]
    /\ UNCHANGED <<queue, reachable, PRINT_MAX_RETRIES, max_attempts, last_error,
                   result, lastCheck>>
    /\ UNCHANGED otherVars

\* ensure_printer_ready called on its own (the check and wait endpoints).
EnsureCall ==
    /\ dpc = "idle"
    /\ \E auto_enable \in BOOLEAN, cupsFails \in BOOLEAN, en \in EnableOutcomes(queue),
          ac1 \in EnableOutcomes(queue), ac2 \in AcceptOutcomes(queue) :
         LET v == ensure_printer_ready(queue, reachable, auto_enable, cupsFails,
                                       en, ac1, ac2)
         IN  /\ queue' = v.after
             /\ lastCheck' = CheckRecord(queue, reachable, auto_enable, cupsFails, v)
    /\ UNCHANGED <<reachable, PRINT_MAX_RETRIES, dpc, attempt, max_attempts,
                   last_error, result, obs>>
    /\ UNCHANGED otherVars

\* The network and the queue change while no check is running: before a call
\* and during the sleep between two attempts.
QueueChange ==
    /\ dpc \in {"idle", "sleep"}
    /\ \E q \in QueueStates : q # queue /\ queue' = q
    /\ lastCheck' = NoCheck
    /\ UNCHANGED <<reachable, PRINT_MAX_RETRIES, dpc, attempt, max_attempts,
                   last_error, result, obs>>
    /\ UNCHANGED otherVars

ReachChange ==
    /\ dpc \in {"idle", "sleep"}
    /\ reachable' = ~reachable
    /\ lastCheck' = NoCheck
    /\ UNCHANGED <<queue, PRINT_MAX_RETRIES, dpc, attempt, max_attempts,
                   last_error, result, obs>>
    /\ UNCHANGED otherVars

NextD ==
    \/ Call
    \/ Attempt
    \/ Sleep
    \/ EnsureCall
    \/ QueueChange
    \/ ReachChange

\* ------------------------------------------------- health and status
ReadyFlagIgnoresStopped(info, reach) ==
    /\ (IF info.ip THEN check_printer_reachable(reach) ELSE TRUE)
    /\ info.is_accepting

\* Lines 455-456 and 511-513, 524: reachable is the TCP check for a queue
\* with an address and True otherwise; ready = reachable and is_accepting
\* and state != 5.
ReadyFlag(info, reach) ==
    /\ (IF info.ip THEN check_printer_reachable(reach) ELSE TRUE)
    /\ info.is_accepting
    /\ info.state # STATE_STOPPED

\* The entry of one endpoint's report for the queue; a queue that
\* get_printer_info returns None for gets no entry with a ready flag.
ReportEntry(endpoint, cupsFails) ==
    LET info == get_printer_info(queue, cupsFails)
    IN  [called |-> TRUE, endpoint |-> endpoint, listed |-> info.found,
         ready |-> info.found /\ ReadyFlag(info, reachable),
         reach |-> reachable, queue |-> queue]

\* GET /health, lines 428-489.
health ==
    /\ dpc = "idle"
    /\ \E cupsFails \in BOOLEAN : report' = ReportEntry("health", cupsFails)
    /\ UNCHANGED <<recVars, dispVars, macCall, wait, boot>>

\* GET /printers/status, lines 498-527.
get_printers_status ==
    /\ dpc = "idle"
    /\ \E cupsFails \in BOOLEAN : report' = ReportEntry("status", cupsFails)
    /\ UNCHANGED <<recVars, dispVars, macCall, wait, boot>>

\* --------------------------------------------------- wait_for_printers
\* Time is counted in half seconds from start_time.
Printers == 1..MaxWaited

Clamp(lo, hi, x) == IF x < lo THEN lo ELSE IF x > hi THEN hi ELSE x

\* The timeout and interval parameters a caller may send, and how long the
\* readiness checks of one round may take together.
TimeoutParams == {0, 16, 1000}

IntervalParams == {0, 6, 100}

RoundDurations == {0, 5}

KeepsPollingAfterTimeout(now, timeout, not_ready) == not_ready # {}

\* Line 912: while time.time() - start_time < timeout and not_ready_printers.
KeepsPolling(now, timeout, not_ready) == now < timeout /\ not_ready # {}

\* Lines 881-910: clamp the parameters, decide what to wait for.
\*   printer : a name, or 0 for None (all printers)
\*   listing : what list_cups_printers returns, unless it raises (~lists)
WaitCall ==
    /\ wait.pc = "idle"
    /\ \E printer \in Printers \cup {0}, timeout \in TimeoutParams,
          interval \in IntervalParams,
          listing \in SUBSET Printers, lists \in BOOLEAN :
         LET started == [NoWait EXCEPT
                           !.timeout = Clamp(TIMEOUT_MIN, TIMEOUT_MAX, timeout),
                           !.interval = Clamp(INTERVAL_MIN, INTERVAL_MAX, interval)]
             to_check == IF printer # 0 THEN {printer}
                         ELSE IF lists THEN listing ELSE {}
         IN  /\ printer # 0 => (listing = {} /\ lists)
             /\ ~lists => listing = {}
             /\ wait' =
                  IF printer = 0 /\ ~lists
                  THEN [started EXCEPT !.pc = "returned", !.success = FALSE,
                                       !.listed = FALSE]
                  ELSE IF to_check = {}
                  THEN [started EXCEPT !.pc = "returned", !.success = TRUE]
                  ELSE [started EXCEPT !.pc = "poll",
                                       !.printers_to_check = to_check,
                                       !.not_ready_printers = to_check]
    /\ UNCHANGED <<recVars, dispVars, macCall, report, boot>>

\* Lines 912-926: one round of the while loop. `found` are the printers for
\* which ensure_printer_ready answers ready in this round, `took` is the time
\* the checks take; the sleep of line 926 follows if printers are left and
\* the timeout has not passed.
PollRound ==
    /\ wait.pc = "poll"
    /\ KeepsPolling(wait.now, wait.timeout, wait.not_ready_printers)
    /\ \E found \in SUBSET wait.not_ready_printers, took \in RoundDurations :
         LET still_not_ready == wait.not_ready_printers \ found
             after == wait.now + took
             sleeps == still_not_ready # {} /\ after < wait.timeout
         IN  wait' = [wait EXCEPT
                        !.attempts = @ + 1,
                        !.ready_printers = @ \cup found,
                        !.not_ready_printers = still_not_ready,
                        !.now = IF sleeps THEN after + wait.interval ELSE after,
                        !.before = wait.ready_printers,
                        !.checked = wait.not_ready_printers,
                        !.at = wait.now,
                        !.slept = sleeps]
    /\ UNCHANGED <<recVars, dispVars, macCall, report, boot>>

\* Lines 928-938: the loop is over, report.
WaitReturn ==
    /\ wait.pc = "poll"
    /\ ~KeepsPolling(wait.now, wait.timeout, wait.not_ready_printers)
    /\ wait' = [wait EXCEPT !.pc = "returned",
                            !.success = (wait.not_ready_printers = {})]
    /\ UNCHANGED <<recVars, dispVars, macCall, report, boot>>

\* ------------------------------------------- main: boot notifications
\* The loop of line 1062 goes on to the next printer, or is over; `b` is the
\* record after the current printer has been counted.
NextPrinter(b) ==
    IF b.printer + 1 \in b.printers
    THEN [b EXCEPT !.pc = "prepare", !.printer = @ + 1, !.attempt = 0]
    ELSE [b EXCEPT !.pc = "done", !.attempt = 0]

\* success_count += 1 (line 1080) or fail_count += 1 (lines 1089, 1099).
Count(b, ok) ==
    [b EXCEPT !.success_count = IF ok THEN @ + 1 ELSE @,
              !.fail_count = IF ok THEN @ ELSE @ + 1,
              !.counted[b.printer] = @ + 1]

RetriesRemainInclusive(n, max) == n <= max

\* Line 1084: if attempt < max_retries, sleep and try again.
RetriesRemain(n, max) == n < max

\* Lines 1056-1060: main reaches the loop with its printers (not empty, line
\* 1033) and the configured retry count.
NotifyStart ==
    /\ boot.pc = "idle"
    /\ \E n \in 1..MaxWaited, max_retries \in (0 - 1)..MaxRetriesCfg :
         boot' = [NoBoot EXCEPT !.pc = "prepare", !.printers = 1..n, !.printer = 1,
                                !.max_retries = max_retries]
    /\ UNCHANGED <<recVars, dispVars, macCall, report, wait>>

\* Lines 1065-1075: make the receipt image; an exception goes to the handler
\* of lines 1097-1099. With max_retries below 1 the range of line 1076 is
\* empty and the printer is counted as failed (lines 1087-1089).
Prepare ==
    /\ boot.pc = "prepare"
    /\ \E raises \in BOOLEAN :
         boot' = IF raises THEN NextPrinter(Count(boot, FALSE))
                 ELSE IF boot.max_retries < 1 THEN NextPrinter(Count(boot, FALSE))
                 ELSE [boot EXCEPT !.pc = "attempt", !.attempt = 1]
    /\ UNCHANGED <<recVars, dispVars, macCall, report, wait>>

\* Lines 1077-1089: one call of print_receipt.
\*   "ok"          : it returns True
\*   "ok_raise"    : it returns True and the print of line 1079 raises
\*   "fail"        : it returns False
PrintAttempt ==
    /\ boot.pc = "attempt"
    /\ \E outcome \in {"ok", "ok_raise", "fail"} :
         LET tried == [boot EXCEPT
                         !.attempts[boot.printer] = @ + 1,
                         !.lateAttempts = IF boot.printer \in boot.printed
                                          THEN @ + 1 ELSE @,
                         !.printed = IF outcome \in {"ok", "ok_raise"}
                                     THEN @ \cup {boot.printer} ELSE @]
         IN  boot' = IF outcome = "ok" THEN NextPrinter(Count(tried, TRUE))
                     ELSE IF outcome = "ok_raise" THEN NextPrinter(Count(tried, FALSE))
                     ELSE IF RetriesRemain(boot.attempt, boot.max_retries)
                     THEN [tried EXCEPT !.pc = "sleep"]
                     ELSE NextPrinter(Count(tried, FALSE))
    /\ UNCHANGED <<recVars, dispVars, macCall, report, wait>>

\* Line 1086: time.sleep(retry_delay), then the next attempt.
NotifySleep ==
    /\ boot.pc = "sleep"
    /\ boot' = [boot EXCEPT !.pc = "attempt", !.attempt = @ + 1,
                            !.sleeps[boot.printer] = @ + 1]
    /\ UNCHANGED <<recVars, dispVars, macCall, report, wait>>

\* ------------------------------------------------------ specifications
DispatchAtRest ==
    /\ queue = [exists |-> FALSE, hasIp |-> FALSE, state |-> STATE_IDLE, accepting |-> TRUE]
    /\ reachable = FALSE
    /\ PRINT_MAX_RETRIES = MaxRetriesCfg
    /\ dpc = "idle"
    /\ attempt = 0
    /\ max_attempts = 0
    /\ last_error = NoError
    /\ result = [job |-> 0, error |-> NoError]
    /\ lastCheck = NoCheck
    /\ obs = NoObs

ReconcileAtRest ==
    /\ InitReconcile
    /\ fsMode = "writable"

Init == InitReconcile /\ DispatchAtRest

Spec == Init /\ [][Next]_vars

\* The passes alone, from a boot of a host that has been in use.
NextBoot ==
    \/ StartPass
    \/ ProcessEndpoint
    \/ EndpointRaises
    \/ EndPass

InitB == InitBoot /\ DispatchAtRest

SpecBoot == InitB /\ [][NextBoot]_vars

\* Two passes at once (the script started twice) on a host with a writable
\* /etc/cups, while devices come and go.
\* The scheduler lets the other pass run: the two swap places.
Switch ==
    /\ peer' = Locals(pc, mac_registry, existing_printers, discovered_uris, next_idx,
                      registry_changed, actions)
    /\ pc' = peer.pc
    /\ mac_registry' = peer.mac_registry
    /\ existing_printers' = peer.existing_printers
    /\ discovered_uris' = peer.discovered_uris
    /\ next_idx' = peer.next_idx
    /\ registry_changed' = peer.registry_changed
    /\ actions' = peer.actions
    /\ UNCHANGED <<cups, net, advertised, fsMode, files, clock, envChanges, faults,
                   seen, hist>>
    /\ UNCHANGED <<dispVars, auxVars>>

NextConcurrent ==
    \/ StartPass
    \/ ProcessEndpoint
    \/ EndpointRaises
    \/ EndPass
    \/ Switch
    \/ DeviceChange

InitC == ReconcileAtRest /\ DispatchAtRest

\* The passes on a host without queues, with any devices on the network and
\* any of them advertised, while a discovery mechanism may be out of order.
InitDiscovery ==
    /\ cups = EmptyDict
    /\ net \in [IPs -> MACs \cup {NoMac, Absent}]
    /\ advertised \in SUBSET IPs
    /\ fsMode = "writable"
    /\ files = [primary |-> AbsentFile, fallback |-> AbsentFile]
    /\ PassAtRest

NextDiscovery ==
    \/ StartPass
    \/ StartPassDegraded
    \/ ProcessEndpoint
    \/ EndpointRaises
    \/ EndPass

InitV == InitDiscovery /\ DispatchAtRest

SpecDiscovery == InitV /\ [][NextDiscovery]_vars

\* A pass that has started keeps running: the interpreter executes the next
\* iteration of the loop of line 504 and, after the last one, lines 613-631.
PassRuns == WF_vars(ProcessEndpoint) /\ WF_vars(EndPass)

\* The networks up to renaming of addresses and devices: the occupied
\* addresses are the lowest ones and the MACs are numbered in order of
\* appearance.
Networks ==
    {n \in [IPs -> MACs \cup {NoMac, Absent}] :
        \A ip \in IPs :
            /\ n[ip] = Absent => \A later \in IPs : later > ip => n[later] = Absent
            /\ n[ip] \in MACs =>
                  \A m \in MACs : m < n[ip] => \E before \in IPs : before < ip /\ n[before] = m}

InitTerminates ==
    /\ cups = EmptyDict
    /\ net \in Networks
    /\ advertised = {}
    /\ fsMode = "writable"
    /\ files = [primary |-> AbsentFile, fallback |-> AbsentFile]
    /\ PassAtRest

InitT == InitTerminates /\ DispatchAtRest

SpecTerminates == InitT /\ [][NextDiscovery]_vars /\ PassRuns

SpecConcurrent == InitC /\ [][NextConcurrent]_vars

InitD == ReconcileAtRest /\ InitDispatch

SpecDispatch == InitD /\ [][NextD]_vars

\* The two reporting endpoints, asked while the queue and the network change.
NextHealth ==
    \/ health
    \/ get_printers_status
    \/ QueueChange
    \/ ReachChange

SpecHealth == InitD /\ [][NextHealth]_vars

\* get_mac_address called with any address and any answers of the commands.
NextMac ==
    \/ GetMacAddress

InitM == ReconcileAtRest /\ DispatchAtRest

SpecMac == InitM /\ [][NextMac]_vars

\* The notification loop of main, for any printers and retry count.
NextNotify ==
    \/ NotifyStart
    \/ Prepare
    \/ PrintAttempt
    \/ NotifySleep

SpecNotify == InitM /\ [][NextNotify]_vars

\* A call of wait_for_printers with any parameters, listing and answers.
NextWait ==
    \/ WaitCall
    \/ PollRound
    \/ WaitReturn

SpecWait == InitM /\ [][NextWait]_vars

\* =====================================================================
\*                                claims
\* =====================================================================
\* C1: as long as every endpoint's MAC resolved and every save of the
\* registry reported success, no MAC has had more than one queue created for
\* it by AddNew, and the current pass has issued no AddNew for a MAC that had
\* a record in the registry a previous pass saved.
C1_OneQueuePerMac ==
    (hist.allResolved /\ hist.savesOk) =>
        /\ \A m \in MACs : hist.addNew[m] <= 1
        /\ pc = "loop" =>
             \A a \in actions : a.kind = "AddNew" => a.mac \notin hist.known

\* C2: a pass that ran right after a finished pass, with nothing changed in
\* between, ends having taken no action but Skip, with the queue set and the
\* registry files as they were when it started.  (Stated for runs in which
\* every lpadmin call and every save succeeded and the registry is written to
\* its primary path.)
C2_SecondPassDoesNothing ==
    (pc = "done" /\ hist.repeat /\ hist.lpadminOk /\ hist.savesOk
       /\ fsMode = "writable") =>
        /\ \A a \in actions : a.kind = "Skip"
        /\ cups = hist.cupsAtStart
        /\ files = hist.filesAtStart

\* The loop is about to visit `uri`, whose MAC is registered under a queue that
\* was configured with another URI when the pass started.
RenameCase(uri) ==
    LET mac == get_mac_address(extract_ip_from_uri(uri))
        n == get_printer_name_by_mac(mac, mac_registry)
    IN  /\ pc = "loop"
        /\ uri \in BagToSet(discovered_uris)
        /\ mac # NoMac
        /\ n # NoName
        /\ n \in DOMAIN existing_printers
        /\ existing_printers[n] # uri

\* The step that visits `uri` issues one UpdateUri on the registered queue and
\* creates no queue.
RenameIssued(uri) ==
    LET mac == get_mac_address(extract_ip_from_uri(uri))
        n == get_printer_name_by_mac(mac, mac_registry)
    IN  /\ \E ok \in BOOLEAN :
              /\ Act("UpdateUri", n, uri, mac, ok) \notin actions
              /\ actions' = actions \cup {Act("UpdateUri", n, uri, mac, ok)}
        /\ DOMAIN cups' = DOMAIN cups
        /\ next_idx' = next_idx

\* After the step queue and record point at `uri`.
RenameApplied(uri) ==
    LET ip == extract_ip_from_uri(uri)
        mac == get_mac_address(ip)
        n == get_printer_name_by_mac(mac, mac_registry)
    IN  /\ cups'[n] = uri
        /\ mac_registry'[mac] = [mac_registry[mac] EXCEPT !.last_ip = ip,
                                   !.last_uri = uri, !.last_seen = clock]

\* C3 (as stated): when the pass visits a device whose MAC is registered under
\* queue N, configured with another URI, it performs exactly one UpdateUri on
\* N, creates no queue, and afterwards queue N and the record's last_uri and
\* last_ip are the new URI.
C3_RenameAlwaysApplied ==
    [][\A uri \in URIs :
          (RenameCase(uri) /\ discovered_uris' = Visited(discovered_uris, uri)) =>
              (RenameIssued(uri) /\ RenameApplied(uri))]_vars

\* C3 (amended): in that case the pass issues exactly one UpdateUri on N and
\* creates no queue; if lpadmin succeeds, queue N and the record's last_uri and
\* last_ip are the new URI; if lpadmin fails, queue set and registry are left
\* as they were.
C3_RenameOnIpChange ==
    [][\A uri \in URIs :
          (RenameCase(uri) /\ discovered_uris' = Visited(discovered_uris, uri)) =>
              /\ RenameIssued(uri)
              /\ (\A a \in actions' \ actions : a.ok) => RenameApplied(uri)
              /\ (\A a \in actions' \ actions : ~a.ok) =>
                    (cups' = cups /\ mac_registry' = mac_registry)]_vars

\* A successful rename has just been applied.
C3_Witness ==
    /\ pc = "done"
    /\ \E a \in actions :
         /\ a = Act("UpdateUri", a.name, a.uri, a.mac, TRUE)
         /\ existing_printers[a.name] # a.uri
         /\ cups[a.name] = a.uri
         /\ mac_registry[a.mac].last_uri = a.uri
         /\ mac_registry[a.mac].last_ip = extract_ip_from_uri(a.uri)
         /\ DOMAIN cups = DOMAIN existing_printers

\* C4: no two registry records of different MACs carry the same queue name.
C4_DistinctQueueNames ==
    \A m1 \in DOMAIN mac_registry, m2 \in DOMAIN mac_registry :
        m1 # m2 => mac_registry[m1].name # mac_registry[m2].name

\* C5: whenever send_to_cups calls printData, the queue is at that moment
\* reachable, not stopped and accepting jobs.
C5_SubmitOnlyWhenReady ==
    obs.submit.made =>
        /\ obs.submit.reach
        /\ obs.submit.state # STATE_STOPPED
        /\ obs.submit.accepting

\* C6: one call of send_to_cups leaves at most one job with the queue
\* manager, and exactly one if it returns a job id.
C6_AtMostOneJob ==
    /\ obs.jobs <= 1
    /\ dpc = "returned" => obs.jobs = 1

\* C7: with max_attempts = n >= 1 and every readiness check answering not
\* ready, send_to_cups never calls printData, and it ends raising, after
\* exactly n checks, the readiness failure of the n-th check.
C7_BoundedRetry ==
    (max_attempts >= 1 /\ obs.allNotReady) =>
        /\ obs.submits = 0
        /\ obs.jobs = 0
        /\ obs.checks <= max_attempts
        /\ dpc # "returned"
        /\ dpc = "raised" =>
             /\ obs.checks = max_attempts
             /\ obs.sleeps = max_attempts - 1
             /\ ~lastCheck.ready
             /\ result.error = Failure(max_attempts, "not_ready", lastCheck.reason)

\* Two checks failed for different reasons and the second one was raised.
C7_Witness ==
    /\ dpc = "raised"
    /\ max_attempts = 2
    /\ obs.allNotReady
    /\ obs.checks = 2
    /\ obs.failures[1].reason = "unreachable"
    /\ result.error.reason = "stopped_enable_failed"

\* C8: send_to_cups returns the job id of the submission of the first attempt
\* that succeeds, having made no attempt after it; when all max_attempts >= 1
\* attempts fail it raises the failure recorded for the last attempt.
C8_ResultOfLastAttempt ==
    /\ dpc = "returned" =>
         /\ result.job = obs.lastJob
         /\ obs.lastJob >= 1
         /\ result.error = NoError
         /\ obs.checks = attempt
         /\ Len(obs.failures) = attempt - 1
         /\ \A i \in DOMAIN obs.failures : obs.failures[i].attempt = i
    /\ (dpc = "raised" /\ max_attempts >= 1) =>
         /\ attempt = max_attempts
         /\ Len(obs.failures) = max_attempts
         /\ result.error = obs.failures[max_attempts]
         /\ result.error = last_error
         /\ \A i \in DOMAIN obs.failures : obs.failures[i].attempt = i

\* The attempts failed in different ways and the last failure was raised.
C8_Witness ==
    /\ dpc = "raised"
    /\ max_attempts = 2
    /\ obs.failures[1].kind = "not_ready"
    /\ obs.failures[2].kind = "ipp_error"
    /\ result.error.kind = "ipp_error"

\* C9: for a queue that exists, has a network address and is not reachable,
\* ensure_printer_ready answers not ready with the unreachable reason whatever
\* the queue's state and accepting flag, and calls neither enablePrinter nor
\* acceptJobs, with or without auto_enable.
C9_UnreachableFirst ==
    (/\ lastCheck.called
     /\ ~lastCheck.cupsFails
     /\ lastCheck.before.exists
     /\ lastCheck.before.hasIp
     /\ ~lastCheck.reach) =>
        /\ ~lastCheck.ready
        /\ lastCheck.reason = "unreachable"
        /\ lastCheck.calls = <<>>
        /\ lastCheck.after = lastCheck.before

\* An unreachable queue that is also stopped and not accepting, with
\* auto_enable set.
C9_Witness ==
    /\ lastCheck.called
    /\ lastCheck.auto
    /\ ~lastCheck.cupsFails
    /\ lastCheck.before.exists
    /\ lastCheck.before.hasIp
    /\ ~lastCheck.reach
    /\ lastCheck.before.state = STATE_STOPPED
    /\ ~lastCheck.before.accepting
    /\ lastCheck.reason = "unreachable"

\* C10: with auto_enable, ensure_printer_ready answers ready only if the queue
\* after the remediation is not stopped and is accepting jobs.
C10_ReadyOnlyIfRemediated ==
    (lastCheck.called /\ lastCheck.auto /\ lastCheck.ready) =>
        /\ lastCheck.after.state # STATE_STOPPED
        /\ lastCheck.after.accepting

\* ---------------------------------------------------------- C11, C12
\* The integer suffixes of the names of the form printer_<integer>.
NumberedSuffixes(names) ==
    {n[2] : n \in {m \in names : Len(m) = 2 /\ m[1] = PrefixWord /\ IsNumeral(m[2])}}

\* C11: when a pass starts, the next name to allocate is printer_(m+1), m the
\* greatest integer suffix among the configured names of the form
\* printer_<integer>, or printer_1 if there is none; other names are ignored.
C11_NextNameIsMaxPlusOne ==
    (pc = "loop" /\ actions = {}) =>
        PrinterName(next_idx) =
            PrinterName(IF NumberedSuffixes(DOMAIN existing_printers) = {} THEN 1
                        ELSE MaxOf(NumberedSuffixes(DOMAIN existing_printers)) + 1)

\* C12: the name of every AddNew of the pass is none of the names configured
\* when the pass started, and no two AddNew of the pass use the same name.
C12_AddNewNameUnused ==
    \A a \in actions :
        a.kind = "AddNew" =>
            /\ a.name \notin DOMAIN existing_printers
            /\ \A b \in actions : (b.kind = "AddNew" /\ b # a) => b.name # a.name

\* --------------------------------------------------------------- C13
\* C13: a URI that both lpinfo and the scan report is visited once by the
\* pass, which decides and applies one action for it.
C13_ProcessedOnce ==
    \A uri \in lpinfo_uris \cap scan_network_for_printers :
        /\ hist.visits[uri] <= 1
        /\ Cardinality({a \in actions : a.uri = uri}) = hist.visits[uri]
        /\ pc = "done" => hist.visits[uri] = 1

\* A pass has created the queue of a device that both sources reported.
C13_Witness ==
    /\ pc = "done"
    /\ \E uri \in lpinfo_uris \cap scan_network_for_printers :
         /\ hist.visits[uri] = 1
         /\ \E a \in actions : a.uri = uri /\ a.kind = "AddNew" /\ a.ok
                              /\ cups[a.name] = uri

\* --------------------------------------------------------------- C14
\* The loop is about to visit `uri`, whose MAC resolves and has no record, and
\* which is the URI of no configured queue.
FreshCase(uri) ==
    LET mac == get_mac_address(extract_ip_from_uri(uri))
    IN  /\ pc = "loop"
        /\ uri \in BagToSet(discovered_uris)
        /\ mac # NoMac
        /\ mac \notin DOMAIN mac_registry
        /\ uri \notin existing_uris
        /\ \A n \in DOMAIN cups : cups[n] # uri

\* The step that visits `uri` has had its lpadmin call succeed.
LpadminSucceeded(uri) == \A a \in actions' \ actions : a.uri = uri => a.ok

\* C14: when the pass visits a fresh device (and lpadmin succeeds), exactly
\* one queue is created, under the next allocated name and bound to the URI,
\* and the registry gets one record for the MAC, with that name and URI.
C14_FreshDeviceAdded ==
    [][\A uri \in URIs :
          (/\ FreshCase(uri)
           /\ discovered_uris' = Visited(discovered_uris, uri)
           /\ LpadminSucceeded(uri)) =>
              LET mac == get_mac_address(extract_ip_from_uri(uri))
                  name == PrinterName(next_idx)
              IN  /\ name \notin DOMAIN cups
                  /\ cups' = DictPut(cups, name, uri)
                  /\ DOMAIN mac_registry' = DOMAIN mac_registry \cup {mac}
                  /\ mac_registry'[mac].name = name
                  /\ mac_registry'[mac].last_uri = uri]_vars

\* --------------------------------------------------------------- C15
\* The loop is about to visit `uri`, whose MAC resolves and has no record, and
\* which is the URI of a configured queue.
BackfillCase(uri) ==
    LET mac == get_mac_address(extract_ip_from_uri(uri))
    IN  /\ pc = "loop"
        /\ uri \in BagToSet(discovered_uris)
        /\ mac # NoMac
        /\ mac \notin DOMAIN mac_registry
        /\ \E n \in DOMAIN cups : cups[n] = uri

\* C15: the visit adds a record binding the MAC to a queue configured with
\* that URI, changes no other record, and leaves the queue set and the name
\* counter as they were.
C15_Backfill ==
    [][\A uri \in URIs :
          (BackfillCase(uri) /\ discovered_uris' = Visited(discovered_uris, uri)) =>
              LET ip == extract_ip_from_uri(uri)
                  mac == get_mac_address(ip)
              IN  /\ cups' = cups
                  /\ next_idx' = next_idx
                  /\ DOMAIN mac_registry' = DOMAIN mac_registry \cup {mac}
                  /\ \A m \in DOMAIN mac_registry : mac_registry'[m] = mac_registry[m]
                  /\ mac_registry'[mac].name \in {n \in DOMAIN cups : cups[n] = uri}
                  /\ mac_registry'[mac].last_uri = uri
                  /\ mac_registry'[mac].last_ip = ip]_vars

\* --------------------------------------------------------------- C16
\* The endpoint's MAC has a record whose last known URI is the discovered one.
RecordUriCase(uri) ==
    LET mac == get_mac_address(extract_ip_from_uri(uri))
    IN  /\ pc = "loop"
        /\ uri \in BagToSet(discovered_uris)
        /\ mac # NoMac
        /\ mac \in DOMAIN mac_registry
        /\ mac_registry[mac].name # NoName
        /\ mac_registry[mac].last_uri = uri

\* C16: visiting an endpoint whose record's last known URI equals the
\* discovered URI creates and modifies no queue and leaves the registry as it
\* was, whatever queue N is configured with and whether or not it exists.
C16_SkipOnRecordUri ==
    [][\A uri \in URIs :
          (RecordUriCase(uri) /\ discovered_uris' = Visited(discovered_uris, uri)) =>
              /\ cups' = cups
              /\ mac_registry' = mac_registry
              /\ next_idx' = next_idx]_vars

\* The endpoint's MAC has a record naming queue N, and N was listed with the
\* discovered URI at the start of the pass.
QueueUriCase(uri) ==
    LET mac == get_mac_address(extract_ip_from_uri(uri))
    IN  /\ pc = "loop"
        /\ uri \in BagToSet(discovered_uris)
        /\ mac # NoMac
        /\ mac \in DOMAIN mac_registry
        /\ mac_registry[mac].name \in DOMAIN existing_printers
        /\ existing_printers[mac_registry[mac].name] = uri

\* C16 (amended): visiting an endpoint whose registered queue N was listed
\* with the discovered URI at the start of the pass creates and modifies no
\* queue and leaves the registry and the name counter as they were, whatever
\* the record's last known URI is.
C16_SkipOnQueueUri ==
    [][\A uri \in URIs :
          (QueueUriCase(uri) /\ discovered_uris' = Visited(discovered_uris, uri)) =>
              /\ cups' = cups
              /\ mac_registry' = mac_registry
              /\ next_idx' = next_idx
              /\ registry_changed' = registry_changed]_vars

\* A pass over a registered device found where its queue points has skipped
\* it and changed nothing.
C16_Witness ==
    /\ pc = "done"
    /\ cups = hist.cupsAtStart
    /\ \E a \in actions :
         /\ a.kind = "Skip" /\ a.mac # NoMac
         /\ actions = {a}
         /\ cups[a.name] = a.uri
         /\ mac_registry[a.mac].name = a.name
         /\ mac_registry[a.mac].last_seen < clock

\* --------------------------------------------------------------- C17
\* The endpoint's MAC is registered under a name no configured queue has.
ReattachCase(uri) ==
    LET mac == get_mac_address(extract_ip_from_uri(uri))
    IN  /\ pc = "loop"
        /\ uri \in BagToSet(discovered_uris)
        /\ mac # NoMac
        /\ mac \in DOMAIN mac_registry
        /\ mac_registry[mac].name # NoName
        /\ mac_registry[mac].name \notin DOMAIN cups

\* The visit has created queue N, bound to the discovered URI, and updated
\* the record of the MAC; no other queue and no other record has changed.
Reattached(uri) ==
    LET ip == extract_ip_from_uri(uri)
        mac == get_mac_address(ip)
        N == mac_registry[mac].name
    IN  /\ DOMAIN cups' = DOMAIN cups \cup {N}
        /\ cups'[N] = uri
        /\ \A n \in DOMAIN cups : cups'[n] = cups[n]
        /\ DOMAIN mac_registry' = DOMAIN mac_registry
        /\ \A m \in DOMAIN mac_registry \ {mac} : mac_registry'[m] = mac_registry[m]
        /\ mac_registry'[mac] = [mac_registry[mac] EXCEPT !.last_ip = ip, !.last_uri = uri,
                                                          !.last_seen = clock]
        /\ mac_registry[mac].last_seen < clock

\* C17: visiting an endpoint whose MAC is registered under name N while no
\* queue N is configured creates queue N bound to the discovered URI, updates
\* the record's last_ip, last_uri and last_seen, and leaves the name counter.
C17_Reattach ==
    [][\A uri \in URIs :
          (ReattachCase(uri) /\ pc' = "loop"
                             /\ discovered_uris' = Visited(discovered_uris, uri)) =>
              (Reattached(uri) /\ next_idx' = next_idx)]_vars

\* C17 (amended): in that case the pass runs lpadmin for queue N with the
\* discovered URI and leaves the name counter; if lpadmin succeeds, queue N is
\* created and the record updated; if it fails, or cannot be run so that the
\* pass is abandoned, queue set and registry are left as they were.
C17_ReattachIfAccepted ==
    [][\A uri \in URIs :
          ReattachCase(uri) =>
              LET mac == get_mac_address(extract_ip_from_uri(uri))
                  N == mac_registry[mac].name
              IN  /\ (pc' = "loop" /\ discovered_uris' = Visited(discovered_uris, uri)) =>
                       /\ next_idx' = next_idx
                       /\ \E ok \in BOOLEAN :
                            /\ actions' \ actions = {Act("Reattach", N, uri, mac, ok)}
                            /\ ok => Reattached(uri)
                            /\ ~ok => (cups' = cups /\ mac_registry' = mac_registry)
                  /\ pc' = "aborted" => (cups' = cups /\ mac_registry' = mac_registry)]_vars

\* A pass has re-created a deleted queue under its registered name.
C17_Witness ==
    /\ pc = "done"
    /\ \E a \in actions :
         /\ a = Act("Reattach", a.name, a.uri, a.mac, TRUE)
         /\ a.name \notin DOMAIN hist.cupsAtStart
         /\ cups[a.name] = a.uri
         /\ mac_registry[a.mac].name = a.name
         /\ mac_registry[a.mac].last_uri = a.uri
         /\ mac_registry[a.mac].last_seen = clock
         /\ mac_registry[a.mac].first_seen < clock

\* --------------------------------------------------------------- C18
\* The endpoint's MAC cannot be resolved.
NoMacCase(uri) ==
    /\ pc = "loop"
    /\ uri \in BagToSet(discovered_uris)
    /\ get_mac_address(extract_ip_from_uri(uri)) = NoMac

\* C18: visiting an endpoint whose MAC cannot be resolved leaves the registry
\* as it was; if the URI matches no queue configured at the start of the pass
\* (and lpadmin succeeds) exactly one queue is created, under the newly
\* allocated name and bound to the URI; if it matches one, nothing changes.
C18_NoMacEndpoint ==
    [][\A uri \in URIs :
          (NoMacCase(uri) /\ discovered_uris' = Visited(discovered_uris, uri)) =>
              LET name == PrinterName(next_idx)
              IN  /\ mac_registry' = mac_registry
                  /\ registry_changed' = registry_changed
                  /\ IF uri \in existing_uris
                     THEN cups' = cups /\ next_idx' = next_idx
                     ELSE LpadminSucceeded(uri) =>
                            /\ name \notin DOMAIN cups
                            /\ DOMAIN cups' = DOMAIN cups \cup {name}
                            /\ cups'[name] = uri
                            /\ \A n \in DOMAIN cups : cups'[n] = cups[n]]_vars

\* --------------------------------------------------------------- C19
\* The MACs that have a record in the registry file at `path`.
PersistedMacs(fs, path) ==
    IF fs[path].state = "ok" THEN DOMAIN fs[path].data ELSE {}

\* C19: no step removes a MAC from a registry file: every MAC with a record
\* in a file before the step has a record in it after the step.
C19_RecordsNeverDeleted ==
    [][\A path \in {"primary", "fallback"} :
          PersistedMacs(files, path) \subseteq PersistedMacs(files', path)]_vars

\* --------------------------------------------------------------- C20
\* The pass has just called save_mac_registry, and every save so far has
\* returned True.
SaveReportedSuccess == pc = "done" /\ registry_changed /\ hist.savesOk

\* C20: once save_mac_registry has reported success, load_mac_registry in the
\* same environment returns exactly the mapping that was saved.
C20_RoundTrip ==
    SaveReportedSuccess => load_mac_registry("ok") = mac_registry

\* --------------------------------------------------------------- C21
\* C21: a step leaves each registry file either as it was or holding the whole
\* mapping being saved, never an empty or truncated file.
C21_AtomicWrite ==
    [][\A path \in {"primary", "fallback"} :
          \/ files'[path] = files[path]
          \/ files'[path] = [state |-> "ok", data |-> mac_registry]]_vars

\* --------------------------------------------------------------- C22
\* How often a call of save_mac_registry tried to write to `path`.
TimesTried(attempted, path) ==
    Cardinality({i \in DOMAIN attempted : attempted[i] = path})

\* C22: a call of save_mac_registry that reports failure has tried the
\* alternate location exactly once, and the pass has run to its end.
C22_FallbackOnAnyFailure ==
    (hist.saved.called /\ ~hist.saved.ok) =>
        /\ TimesTried(hist.saved.attempted, "fallback") = 1
        /\ pc = "done"

\* --------------------------------------------------------------- C23
\* The record of `mac` was created or updated by the pass now running or just
\* ended: both set last_seen to the time of the pass.
ChangedThisPass(mac) == mac_registry[mac].last_seen = clock

\* The record of `mac`, as it is in memory, is in one of the registry files.
Persisted(mac) ==
    \E path \in {"primary", "fallback"} :
        /\ files[path].state = "ok"
        /\ mac \in DOMAIN files[path].data
        /\ files[path].data[mac] = mac_registry[mac]

\* C23: when a pass has ended, normally or through an error raised while
\* processing an endpoint, every record it created or updated is persisted.
C23_PartialProgressKept ==
    pc \in {"done", "aborted"} =>
        \A mac \in DOMAIN mac_registry : ChangedThisPass(mac) => Persisted(mac)

\* --------------------------------------------------------------- C24
\* The MACs whose record a pass has created or updated.
ChangedMacs(acts) ==
    {a.mac : a \in {b \in acts : b.ok /\ b.mac # NoMac /\ b.kind # "Skip"}}

\* Both passes have ended, each has saved changes, and no call has failed.
BothSaved ==
    /\ pc = "done" /\ peer.pc = "done"
    /\ registry_changed /\ peer.registry_changed
    /\ hist.savesOk
    /\ faults = 0

\* C24: when two passes that changed records of different MACs have both
\* saved, the registry file holds the changes of both.
C24_NoLostUpdate ==
    (BothSaved /\ ChangedMacs(actions) \cap ChangedMacs(peer.actions) = {}) =>
        LET stored == load_mac_registry("ok")
        IN  /\ \A mac \in ChangedMacs(actions) :
                 mac \in DOMAIN stored /\ stored[mac] = mac_registry[mac]
            /\ \A mac \in ChangedMacs(peer.actions) :
                 mac \in DOMAIN stored /\ stored[mac] = peer.mac_registry[mac]

\* --------------------------------------------------------------- C25
\* The errors send_to_cups raises on purpose: HTTPException with the reason
\* of a readiness or submission failure.
DispatchErrors == {"not_ready", "cups_error", "queue_not_found", "ipp_error"}

\* C25: whatever PRINT_MAX_RETRIES is, a call of send_to_cups that has ended
\* has made at least one attempt, and has returned a job id or raised a
\* dispatch error.
C25_AtLeastOneAttempt ==
    dpc \in {"returned", "raised"} =>
        /\ obs.checks >= 1
        /\ dpc = "raised" => result.error.kind \in DispatchErrors

\* --------------------------------------------------------------- C26
\* The error the caller gets tells the reason of failure f: an HTTPException
\* has one status and one detail, those of the attempt that made it.
Carries(err, f) == err.kind = f.kind /\ err.reason = f.reason

\* C26: the error raised when the attempts are used up carries the failure
\* reason of every attempt.
C26_EveryReasonKept ==
    dpc = "raised" =>
        \A i \in DOMAIN obs.failures : Carries(result.error, obs.failures[i])

\* C26 (amended): the error raised when the attempts are used up carries the
\* failure reason of the last attempt and of no attempt that failed for
\* another reason.
C26_LastReasonOnly ==
    dpc = "raised" =>
        \A i \in DOMAIN obs.failures :
            Carries(result.error, obs.failures[i])
                <=> Carries(obs.failures[Len(obs.failures)], obs.failures[i])

\* Two attempts failed, the first unlike the last, and the caller got the
\* reason of the last one only.
C26_Witness ==
    /\ dpc = "raised"
    /\ Len(obs.failures) = 2
    /\ ~Carries(obs.failures[2], obs.failures[1])
    /\ Carries(result.error, obs.failures[2])
    /\ ~Carries(result.error, obs.failures[1])

\* --------------------------------------------------------------- C27
\* The endpoint's MAC is registered under name N and the discovered URI is the
\* URI of a configured queue M other than N.
OtherQueueCase(uri) ==
    LET mac == get_mac_address(extract_ip_from_uri(uri))
    IN  /\ pc = "loop"
        /\ uri \in BagToSet(discovered_uris)
        /\ mac # NoMac
        /\ mac \in DOMAIN mac_registry
        /\ mac_registry[mac].name # NoName
        /\ \E M \in DOMAIN cups : M # mac_registry[mac].name /\ cups[M] = uri

\* The visit leaves every record's name, and the set of records, as they were.
NamesKept ==
    /\ DOMAIN mac_registry' = DOMAIN mac_registry
    /\ \A m \in DOMAIN mac_registry : mac_registry'[m].name = mac_registry[m].name

Sightings ==
    {a \in actions : /\ a.kind \in {"Skip", "UpdateUri", "Reattach"}
                     /\ a.mac # NoMac
                     /\ a.ok
                     /\ \A b \in actions : b.mac = a.mac => b = a}

\* C28: after a pass, the record of every registered device it sighted has
\* the time of the pass as last_seen and the discovered endpoint as last_ip
\* and last_uri.
C28_UpdatedOnEverySighting ==
    pc = "done" =>
        \A a \in Sightings :
            /\ mac_registry[a.mac].last_seen = clock
            /\ mac_registry[a.mac].last_uri = a.uri
            /\ mac_registry[a.mac].last_ip = extract_ip_from_uri(a.uri)

\* --------------------------------------------------------------- C29
\* The latest call of ensure_printer_ready called the queue manager to change
\* the queue, or left the queue other than it found it.
Mutated(check) == check.calls # <<>> \/ check.after # check.before

\* The checks of that call got as far as the stopped / not-accepting steps and
\* found something to remedy.
ReachedRemediation(check) ==
    /\ check.before.exists /\ ~check.cupsFails
    /\ check.before.hasIp => check.reach
    /\ check.before.state = STATE_STOPPED \/ ~check.before.accepting

\* C29: ensure_printer_ready changes the queue's administrative state only
\* with auto_enable and after reaching the stopped or not-accepting step;
\* without auto_enable, or for a queue that is not found or not reachable, the
\* queue is left as it was.
C29_MutatesOnlyWhenRemediating ==
    lastCheck.called =>
        /\ Mutated(lastCheck) => (lastCheck.auto /\ ReachedRemediation(lastCheck))
        /\ (~lastCheck.auto \/ lastCheck.reason \in {"not_found", "unreachable"}) =>
               (lastCheck.calls = <<>> /\ lastCheck.after = lastCheck.before)
        /\ queue = lastCheck.after

\* A call with auto_enable has re-enabled a stopped queue.
C29_Witness ==
    /\ lastCheck.called /\ lastCheck.auto
    /\ lastCheck.before.state = STATE_STOPPED
    /\ lastCheck.after.state = STATE_IDLE
    /\ lastCheck.calls # <<>>
    /\ queue = lastCheck.after

\* --------------------------------------------------------------- C30
\* The kinds of failure send_to_cups retries on: the gate said not ready, or
\* the listing or the submission failed.
RetryKinds == {"not_ready", "cups_error", "queue_not_found", "ipp_error"}

\* The attempts of this call that failed and were not the last one allowed.
FailedNotLast ==
    {i \in DOMAIN obs.failures : i < max_attempts}

\* C30: whatever the kinds of the failures of a call of send_to_cups, in
\* whatever order, the call makes at most max_attempts attempts, each attempt
\* starts with the readiness gate, and the call has slept once for each failed
\* attempt that was not the last and not at all after the last.
C30_FailureKindsAlike ==
    /\ obs.checks <= (IF max_attempts >= 1 THEN max_attempts ELSE 0)
    /\ obs.submits <= obs.checks
    /\ \A i \in DOMAIN obs.failures :
         obs.failures[i].attempt = i /\ obs.failures[i].kind \in RetryKinds
    /\ dpc = "attempt" =>
         /\ obs.checks = attempt - 1
         /\ Len(obs.failures) = attempt - 1
         /\ obs.sleeps = Cardinality(FailedNotLast)
         /\ obs.sleeps = Len(obs.failures)
    /\ dpc = "sleep" =>
         /\ obs.checks = attempt
         /\ Len(obs.failures) = attempt
         /\ attempt < max_attempts
         /\ obs.sleeps = Cardinality(FailedNotLast) - 1
    /\ dpc = "returned" =>
         /\ obs.checks = attempt
         /\ obs.sleeps = Len(obs.failures)
         /\ obs.sleeps = Cardinality(FailedNotLast)
    /\ (dpc = "raised" /\ max_attempts >= 1) =>
         /\ obs.checks = max_attempts
         /\ Len(obs.failures) = max_attempts
         /\ obs.sleeps = max_attempts - 1
         /\ obs.sleeps = Cardinality(FailedNotLast)
    /\ (dpc = "raised" /\ max_attempts < 1) => (obs.checks = 0 /\ obs.sleeps = 0)

\* A submission error, then a not-ready gate: one sleep between the two, none
\* after the second.
C30_Witness ==
    /\ dpc = "raised"
    /\ max_attempts = 2
    /\ obs.checks = 2
    /\ obs.sleeps = 1
    /\ obs.failures[1].kind = "ipp_error"
    /\ obs.failures[2].kind = "not_ready"

\* --------------------------------------------------------------- C31
\* C31: ensure_printer_ready answers "not found" only for a queue that is not
\* configured; when the queue manager fails it answers not ready, with a
\* reason other than "not found".
C31_NotFoundOnlyWhenAbsent ==
    lastCheck.called =>
        /\ lastCheck.reason = "not_found" => ~lastCheck.before.exists
        /\ lastCheck.cupsFails =>
               (~lastCheck.ready /\ lastCheck.reason # "not_found")

\* --------------------------------------------------------------- C32
\* The pass is working through, or has worked through, every URI of `found`.
Reconciles(found) ==
    /\ pc \in {"loop", "done"}
    /\ \A uri \in found : uri \in BagToSet(discovered_uris) \/ hist.visits[uri] >= 1

\* C32: a pass whose lpinfo lookup failed still scans and reconciles the
\* scanned endpoints, and a pass whose scan failed still reconciles the
\* advertised endpoints.
C32_PartialDiscovery ==
    /\ hist.lookup = "lpinfo_raised" => Reconciles(scan_network_for_printers)
    /\ hist.lookup = "scan_failed" => Reconciles(lpinfo_uris)

\* --------------------------------------------------------------- C33
\* The pass would allocate a name beyond the names of the model.
NamesUsedUp == next_idx > MaxName

\* discover_and_add_printers has returned: after the summary of lines 618-631
\* or from the handler of lines 633-636.
Returned == pc \in {"done", "aborted"}

\* C33: a pass that has started returns, whatever the collaborators answer,
\* and it visits no discovered endpoint twice.
C33_PassTerminates ==
    /\ [](\A uri \in URIs : hist.visits[uri] <= 1)
    /\ (pc = "loop") ~> (Returned \/ NamesUsedUp)

\* A pass over two endpoints has returned although an lpadmin call failed.
C33_Witness ==
    /\ pc = "done"
    /\ \E a \in actions : ~a.ok
    /\ \E u1 \in URIs, u2 \in URIs :
         u1 # u2 /\ hist.visits[u1] = 1 /\ hist.visits[u2] = 1

\* --------------------------------------------------------------- C34
\* What each lookup of the latest call gives once parsed, in the fixed order
\* ip-neighbor, arp, /proc/net/arp.
Yields(call) ==
    <<IpNeighbor(call.out[1]), Arp(call.out[2]), ProcNetArp(call.out[3])>>

\* The MAC from the first lookup that yields one, None when none does.
FirstYield(call) ==
    LET y == Yields(call)
        hits == {i \in 1..3 : y[i] # None}
    IN  IF hits = {} THEN None
        ELSE y[CHOOSE i \in hits : \A j \in hits : i <= j]

\* C34: get_mac_address returns None for an empty or unknown address, and
\* otherwise the MAC of the first lookup mechanism, in the order ip-neighbor,
\* arp, /proc/net/arp, that yields one, upper case and colon-separated; None
\* when none of them yields one.
C34_FirstMechanismWins ==
    macCall.called =>
        /\ macCall.result # None =>
               (macCall.result.upper /\ macCall.result.sep = ":")
        /\ macCall.ip \in {"", "unknown"} => macCall.result = None
        /\ macCall.ip = "addr" => macCall.result = FirstYield(macCall)

\* --------------------------------------------------------------- C35
\* No two queues of the set point at the same URI.
DistinctUris(queues) ==
    \A n1 \in DOMAIN queues, n2 \in DOMAIN queues :
        n1 # n2 => queues[n1] # queues[n2]

\* C35: a pass that starts with no two queues on one URI ends with no two
\* queues on one URI.
C35_DistinctUrisKept ==
    (pc = "done" /\ DistinctUris(hist.cupsAtStart)) => DistinctUris(cups)

\* --------------------------------------------------------------- C36
\* The actions that call lpadmin.
LpadminKinds == {"AddNew", "UpdateUri", "Reattach"}

\* C36: the visit of an endpoint whose lpadmin call returns non-zero leaves
\* the registry, the changed flag and the queues as they were, and the loop
\* goes on with the endpoints still to visit.
C36_FailedActionKeepsRegistry ==
    [][\A a \in actions' \ actions :
          (a.kind \in LpadminKinds /\ ~a.ok) =>
              /\ mac_registry' = mac_registry
              /\ registry_changed' = registry_changed
              /\ cups' = cups
              /\ pc' = "loop"
              /\ discovered_uris' = Visited(discovered_uris, a.uri)]_vars

\* The UpdateUri of a registered device failed, its record still has the old
\* URI, and the pass went on to its end.
C36_Witness ==
    /\ pc = "done"
    /\ \E a \in actions :
         /\ a.kind = "UpdateUri" /\ ~a.ok
         /\ a.mac \in DOMAIN mac_registry
         /\ mac_registry[a.mac].last_uri # a.uri
    /\ Cardinality(actions) >= 2

\* --------------------------------------------------------------- C37
\* C37: while a pass works through its endpoints, every record of the
\* registry stays, with its name and its first_seen; a step changes nothing
\* of the records of the MACs it does not act on.
C37_NameAndFirstSeenFixed ==
    [][pc = "loop" =>
          \A mac \in DOMAIN mac_registry :
              /\ mac \in DOMAIN mac_registry'
              /\ mac_registry'[mac].name = mac_registry[mac].name
              /\ mac_registry'[mac].first_seen = mac_registry[mac].first_seen
              /\ (\A a \in actions' \ actions : a.mac # mac) =>
                     mac_registry'[mac] = mac_registry[mac]]_vars

\* A record made by an earlier pass has been brought up to date by an
\* UpdateUri or a Reattach of this pass.
C37_Witness ==
    \E a \in actions :
        /\ a.kind \in {"UpdateUri", "Reattach"} /\ a.ok
        /\ a.mac \in DOMAIN mac_registry
        /\ mac_registry[a.mac].last_uri = a.uri
        /\ mac_registry[a.mac].last_seen > mac_registry[a.mac].first_seen

\* --------------------------------------------------------------- C38
\* C38: the ready flag of a queue's entry in the health and status reports is
\* the answer of ensure_printer_ready without auto_enable for the queue as it
\* was: true exactly when the device is reachable or the queue has no
\* address, the queue is not stopped, and it accepts jobs.
C38_ReadyFlagIsGate ==
    (report.called /\ report.listed) =>
        /\ \A en \in CallOutcomes, ac1 \in CallOutcomes, ac2 \in CallOutcomes :
               report.ready =
                   ensure_printer_ready(report.queue, report.reach, FALSE, FALSE,
                                        en, ac1, ac2).ready
        /\ report.ready <=>
               /\ report.queue.hasIp => report.reach
               /\ report.queue.state # STATE_STOPPED
               /\ report.queue.accepting

\* The status report has an entry, not ready, for a reachable stopped queue.
C38_Witness ==
    /\ report.called /\ report.listed
    /\ report.endpoint = "status"
    /\ report.queue.hasIp /\ report.reach
    /\ report.queue.state = STATE_STOPPED
    /\ ~report.ready

\* --------------------------------------------------------------- C39
\* After every round: the two lists are disjoint and make up the printers
\* waited for; the round checked the printers not yet ready and no other,
\* every printer that was ready still is; the round was started with time
\* left and printers to wait for; it slept only with printers left and time
\* left.
RoundsAreSound ==
    wait.pc \in {"poll", "returned"} =>
        /\ wait.ready_printers \cap wait.not_ready_printers = {}
        /\ wait.ready_printers \cup wait.not_ready_printers = wait.printers_to_check
        /\ wait.attempts >= 1 =>
             /\ wait.checked \cap wait.before = {}
             /\ wait.checked \cup wait.before = wait.printers_to_check
             /\ wait.before \subseteq wait.ready_printers
             /\ wait.not_ready_printers \subseteq wait.checked
             /\ wait.at < wait.timeout /\ wait.checked # {}
             /\ wait.slept =>
                  (wait.not_ready_printers # {} /\ wait.now - wait.interval < wait.timeout)
        /\ wait.timeout \in TIMEOUT_MIN..TIMEOUT_MAX
        /\ wait.interval \in INTERVAL_MIN..INTERVAL_MAX

\* The loop is left only with no printer left or the timeout passed.
StopsWhenDue ==
    (wait.pc = "returned" /\ wait.printers_to_check # {}) =>
        (wait.not_ready_printers = {} \/ wait.now >= wait.timeout)

\* C39: the rounds of wait_for_printers are sound, the loop stops when no
\* printer is left or the clamped timeout has passed, and success is reported
\* exactly when not_ready is empty.
C39_SuccessIffNoneLeft ==
    /\ RoundsAreSound
    /\ StopsWhenDue
    /\ wait.pc = "returned" => (wait.success <=> wait.not_ready_printers = {})

\* C39 (amended): the same, except that a call that cannot list the printers
\* reports failure with both lists empty.
C39_SuccessIffNoneLeftOrNoList ==
    /\ RoundsAreSound
    /\ StopsWhenDue
    /\ (wait.pc = "returned" /\ wait.listed) =>
           (wait.success <=> wait.not_ready_printers = {})
    /\ (wait.pc = "returned" /\ ~wait.listed) =>
           (~wait.success /\ wait.ready_printers = {} /\ wait.not_ready_printers = {})

\* A call waited for two printers, found one ready in the first round and
\* gave up on the other after the timeout.
C39_Witness ==
    /\ wait.pc = "returned"
    /\ ~wait.success
    /\ wait.attempts >= 2
    /\ wait.ready_printers # {}
    /\ wait.not_ready_printers # {}
    /\ wait.now >= wait.timeout

\* --------------------------------------------------------------- C40
\* The printers the loop has finished with.
Finished ==
    {p \in boot.printers : boot.pc = "done" \/ p < boot.printer}

\* C40: in the notification loop every printer gets at most max_retries
\* calls of print_receipt and none after one that succeeded, the delay is
\* slept between two attempts only, and every printer is counted once, as a
\* success or as a failure, so that at the end the two counts add up to the
\* number of printers.
C40_CountedOnce ==
    /\ \A p \in boot.printers :
         /\ boot.attempts[p] <= (IF boot.max_retries >= 1 THEN boot.max_retries ELSE 0)
         /\ boot.counted[p] = (IF p \in Finished THEN 1 ELSE 0)
         /\ p \in Finished =>
              boot.sleeps[p] = (IF boot.attempts[p] >= 1 THEN boot.attempts[p] - 1 ELSE 0)
         /\ (p = boot.printer /\ boot.pc = "sleep") =>
              (boot.sleeps[p] = boot.attempts[p] - 1 /\ boot.attempts[p] < boot.max_retries)
         /\ (p = boot.printer /\ boot.pc = "attempt") =>
              (boot.sleeps[p] = boot.attempts[p] /\ boot.attempt = boot.attempts[p] + 1)
    /\ boot.lateAttempts = 0
    /\ boot.success_count + boot.fail_count = Cardinality(Finished)
    /\ boot.success_count <= Cardinality(boot.printed)
    /\ boot.pc = "done" =>
         boot.success_count + boot.fail_count = Cardinality(boot.printers)

\* Two printers: the first printed at the second attempt, after one sleep,
\* the second failed both attempts.
C40_Witness ==
    /\ boot.pc = "done"
    /\ boot.printers = {1, 2}
    /\ boot.max_retries = 2
    /\ boot.attempts[1] = 2 /\ boot.sleeps[1] = 1 /\ 1 \in boot.printed
    /\ boot.attempts[2] = 2 /\ boot.sleeps[2] = 1 /\ 2 \notin boot.printed
    /\ boot.success_count = 1 /\ boot.fail_count = 1

====
